---- MODULE Spec2Model ----
(***************************************************************************)
(* The single-page client of the catheter-site triage demo                 *)
(* (frontend/app.js): the DOM it writes, its two module variables          *)
(* (mediaStream, cachedHistory), its event handlers and the continuations  *)
(* of its asynchronous calls (fetch, getUserMedia, toBlob).                *)
(*                                                                         *)
(* JavaScript values are modelled structurally.  An object is a TLA+       *)
(* record that has exactly the properties the object has, so a missing     *)
(* property is a missing field.  null and undefined are the two records    *)
(* Null and Undefined.  A label is a sequence of one-character strings, so *)
(* that toLowerCase is computed character by character.  A number in       *)
(* [0,1] is kept in thousandths (0.75 is 750).                             *)
(***************************************************************************)
EXTENDS Integers, Sequences, FiniteSets, TLC

(***************************************************************************)
(* Bounds of the model.                                                    *)
(***************************************************************************)
\* runAnalysis calls started in one behaviour
MaxAnalyses == 2
\* getUserMedia calls started in one behaviour
MaxCameraOpens == 2
\* keys set in a features mapping drawn for the rendering specification
MaxKeys == 1

(***************************************************************************)
(* JavaScript values.                                                      *)
(***************************************************************************)
Null == [null |-> TRUE]
Undefined == [undefined |-> TRUE]
EmptyObject == <<>>

\* a JavaScript array, and its elements
Array(seq) == [array |-> seq]
Items(a) == a.array

\* value == null || value === undefined
Nullish(v) == v = Null \/ v = Undefined

\* obj[key] of an object; undefined when the property is missing
Prop(obj, key) == IF key \in DOMAIN obj THEN obj[key] ELSE Undefined

\* obj?.key: undefined when obj is null or undefined
OptProp(obj, key) == IF Nullish(obj) THEN Undefined ELSE Prop(obj, key)

\* truthiness of value.key for the boolean properties present and yes
Flag(value, key) == key \in DOMAIN value /\ value[key] = TRUE

\* truthiness of value.key for the string properties type and amount
NonEmptyString(value, key) == key \in DOMAIN value /\ value[key] # ""

(***************************************************************************)
(* Numbers.  milli is the value times 1000; nan marks NaN.                 *)
(***************************************************************************)
Num(m) == [nan |-> FALSE, milli |-> m]
NaN == [nan |-> TRUE, milli |-> 0]

\* the numeric strings the model draws, with the number each parses to
NumericStrings == [s \in {"0.9", ""} |-> IF s = "0.9" THEN 900 ELSE 0]

\* ToNumber of an overall_confidence value: undefined is NaN, null is 0,
\* true is 1, false is 0, a string is parsed
ToNumber(v) ==
  CASE v = Undefined -> NaN
    [] v = Null -> Num(0)
    [] v.t = "number" -> v.n
    [] v.t = "boolean" -> Num(IF v.b THEN 1000 ELSE 0)
    [] v.t = "string" ->
         IF v.s \in DOMAIN NumericStrings THEN Num(NumericStrings[v.s]) ELSE NaN

\* truthiness of an overall_confidence value
Truthy(v) ==
  CASE v = Undefined -> FALSE
    [] v = Null -> FALSE
    [] v.t = "number" -> ~v.n.nan /\ v.n.milli # 0
    [] v.t = "boolean" -> v.b
    [] v.t = "string" -> v.s # ""

\* (x * 100).toFixed(0): x * 100 is milli / 10, rounded to the nearest
\* integer, a tie to the larger magnitude; NaN prints as NaN
Times100ToFixed0(x) ==
  IF x.nan THEN "NaN"
  ELSE IF x.milli >= 0 THEN ToString((x.milli + 5) \div 10)
  ELSE "-" \o ToString(((0 - x.milli) + 5) \div 10)

(***************************************************************************)
(* Strings as character sequences (labels).                                *)
(***************************************************************************)
LowerCase ==
  <<"a", "b", "c", "d", "e", "f", "g", "h", "i", "j", "k", "l", "m",
    "n", "o", "p", "q", "r", "s", "t", "u", "v", "w", "x", "y", "z">>
UpperCase ==
  <<"A", "B", "C", "D", "E", "F", "G", "H", "I", "J", "K", "L", "M",
    "N", "O", "P", "Q", "R", "S", "T", "U", "V", "W", "X", "Y", "Z">>

LowerChar(c) ==
  IF \E j \in DOMAIN UpperCase : UpperCase[j] = c
  THEN LowerCase[CHOOSE j \in DOMAIN UpperCase : UpperCase[j] = c]
  ELSE c

UpperChar(c) ==
  IF \E j \in DOMAIN LowerCase : LowerCase[j] = c
  THEN UpperCase[CHOOSE j \in DOMAIN LowerCase : LowerCase[j] = c]
  ELSE c

\* String.prototype.toLowerCase
toLowerCase(s) == [i \in 1..Len(s) |-> LowerChar(s[i])]

(***************************************************************************)
(* featureLabels and the rendering functions.                              *)
(***************************************************************************)
\* Object.entries(featureLabels): the keys in insertion order with labels
featureLabels ==
  << <<"redness", "Redness">>,
     <<"swelling", "Swelling">>,
     <<"dressing_lift", "Dressing lift">>,
     <<"discharge", "Discharge">>,
     <<"exposed_catheter", "Exposed catheter">>,
     <<"open_wound", "Open wound">>,
     <<"bruising", "Bruising">>,
     <<"crusting", "Crusting">>,
     <<"erythema_border_sharp", "Sharp erythema border">>,
     <<"fluctuance", "Fluctuance">> >>

\* 0.75 and 0.45, in thousandths
ChipSuccessMin == 750
ChipWarnMin == 450

confidenceClass(value) ==
  LET x == ToNumber(value) IN
  IF ~x.nan /\ x.milli >= ChipSuccessMin THEN "chip success"
  ELSE IF ~x.nan /\ x.milli >= ChipWarnMin THEN "chip warn"
  ELSE IF ~x.nan /\ x.milli > 0 THEN "chip muted"
  ELSE "chip muted"

\* the colour table of setStatusDot
StatusDotColors ==
  << <<"r", "e", "d">>,
     <<"y", "e", "l", "l", "o", "w">>,
     <<"g", "r", "e", "e", "n">>,
     <<"u", "n", "c", "e", "r", "t", "a", "i", "n">> >>

ColorName(i) == <<"red", "yellow", "green", "uncertain">>[i]

\* the label looked up as it is, its case kept
NormalizedLabel_CaseKept(label) == label

\* normalized = label.toLowerCase()
NormalizedLabel(label) == toLowerCase(label)

\* setStatusDot(label = ''): the className and the title of the dot; the
\* caller passes the empty string for an undefined label
setStatusDot(label) ==
  LET normalized == NormalizedLabel(label)
      color == IF \E i \in DOMAIN StatusDotColors : StatusDotColors[i] = normalized
               THEN ColorName(CHOOSE i \in DOMAIN StatusDotColors :
                                StatusDotColors[i] = normalized)
               ELSE "neutral"
  IN [className |-> "status-dot " \o color,
      title |-> [label |-> label, suffix |-> " indicator"]]

\* the text of the confidence chip
ConfidenceText(classification) ==
  "Confidence "
    \o Times100ToFixed0(ToNumber(Prop(classification, "overall_confidence")))
    \o "%"

\* classification.overall_confidence || 0
ConfidenceOrZero(classification) ==
  LET v == Prop(classification, "overall_confidence") IN
  IF Truthy(v) THEN v ELSE [t |-> "number", n |-> Num(0)]

\* el.textContent = obj[key]: a missing property gives the empty text
TextOrEmpty(obj, key, empty) == IF key \in DOMAIN obj THEN obj[key] ELSE empty

\* renderSummary(classification), for a classification that is an object
renderSummary(classification) ==
  LET dot == setStatusDot(TextOrEmpty(classification, "label", <<>>)) IN
  [label |-> TextOrEmpty(classification, "label", <<>>),
   risk |-> "Risk score: " \o
            (IF "risk_score" \in DOMAIN classification
             THEN ToString(classification.risk_score) ELSE "undefined"),
   explanation |-> TextOrEmpty(classification, "explanation", ""),
   confidence |-> ConfidenceText(classification),
   confidenceClassName |-> confidenceClass(ConfidenceOrZero(classification)),
   dotClassName |-> dot.className,
   dotTitle |-> dot.title]

\* describeFeature without its first line, the test of a missing value
describeFeature_NoValueTest(name, value) ==
  IF name = "erythema_border_sharp" THEN
    (IF Flag(value, "yes") THEN "Defined border" ELSE "Diffuse border")
  ELSE IF Flag(value, "present") THEN "Present" ELSE "Not detected"

describeFeature(name, value) ==
  IF Nullish(value) THEN "Not detected"
  ELSE IF name = "discharge" /\ Flag(value, "present") THEN
    (IF NonEmptyString(value, "type") THEN value.type ELSE "discharge")
      \o " present"
      \o (IF NonEmptyString(value, "amount") THEN " (" \o value.amount \o ")" ELSE "")
  ELSE IF name = "redness" /\ Flag(value, "present") THEN
    "Extent "
      \o ToString(IF "extent_percent" \in DOMAIN value THEN value.extent_percent ELSE 0)
      \o "%"
  ELSE IF name = "swelling" /\ Flag(value, "present") THEN
    "Extent "
      \o ToString(IF "extent_percent" \in DOMAIN value THEN value.extent_percent ELSE 0)
      \o "%"
  ELSE IF name = "erythema_border_sharp" THEN
    (IF Flag(value, "yes") THEN "Defined border" ELSE "Diffuse border")
  ELSE IF Flag(value, "present") THEN "Present" ELSE "Not detected"

indicatorClass(name, value) ==
  IF Nullish(value) THEN "indicator neutral"
  ELSE IF name = "dressing_lift" /\ Flag(value, "present") THEN "indicator alert"
  ELSE IF name = "discharge" /\ Flag(value, "present") THEN "indicator danger"
  ELSE IF name = "open_wound" /\ Flag(value, "present") THEN "indicator danger"
  ELSE IF Flag(value, "present") \/ Flag(value, "yes") THEN "indicator alert"
  ELSE "indicator neutral"

\* value?.present || value?.yes || false, then the mark of the third span
IndicatorMark(value) ==
  IF ~Nullish(value) /\ (Flag(value, "present") \/ Flag(value, "yes"))
  THEN "warning" ELSE "check"

\* the entries of featureLabels whose key the features mapping has
IndicatorEntries_OfFeatures(features) ==
  SelectSeq(featureLabels, LAMBDA e : e[1] \in DOMAIN features)

\* the keys renderIndicators walks: Object.entries(featureLabels)
IndicatorEntries(features) == featureLabels

\* renderIndicators(null) reads a property of null and throws
renderIndicatorsThrows(featuresArg) == featuresArg = Null

\* renderIndicators(features = {}): the innerHTML of the indicator list, one
\* element per entry
renderIndicators(featuresArg) ==
  LET features == IF featuresArg = Undefined THEN EmptyObject ELSE featuresArg
      entries == IndicatorEntries(features)
  IN [i \in 1..Len(entries) |->
        LET key == entries[i][1]
            value == Prop(features, key)
        IN [className |-> indicatorClass(key, value),
            strong |-> entries[i][2],
            description |-> describeFeature(key, value),
            mark |-> IndicatorMark(value)]]

\* JSON.stringify(payload, null, 2): the text shown, kept as the value it
\* prints
renderDocument(payload) == [json |-> payload]

\* formatTimestamp(iso)
formatTimestamp(entry) ==
  IF "timestamp" \notin DOMAIN entry \/ entry.timestamp = ""
  THEN "Unknown time"
  ELSE "localized " \o entry.timestamp

Unknown == <<"U", "n", "k", "n", "o", "w", "n">>

\* entry.classification?.label || 'Unknown'
HistoryItemLabel(entry) ==
  LET c == Prop(entry, "classification") IN
  IF ~Nullish(c) /\ "label" \in DOMAIN c /\ c.label # <<>> THEN c.label ELSE Unknown

\* one history item of renderHistory
HistoryItem(entry) ==
  [image_url |-> entry.image_url,
   label |-> HistoryItemLabel(entry),
   time |-> formatTimestamp(entry),
   id |-> entry.id]

\* the innerHTML renderHistory writes for a non-empty array of entries
HistoryItems(entries) ==
  [i \in 1..Len(Items(entries)) |-> HistoryItem(Items(entries)[i])]

\* the note renderHistory writes for an empty array
NoHistoryNote == <<>>

(***************************************************************************)
(* The state.                                                              *)
(***************************************************************************)
VARIABLES
  screens,        \* dom.screens: each screen's active class and aria-hidden
  status,         \* dom.status: textContent and className
  buttons,        \* dom.buttons.analyze and dom.buttons.camera
  summary,        \* dom.summary: label, risk, explanation, confidence, dot
  indicatorList,  \* dom.indicatorList.innerHTML
  jsonView,       \* dom.jsonView.textContent
  historyList,    \* dom.historyList.innerHTML
  galleryFiles,   \* dom.inputs.gallery.files
  cameraFiles,    \* dom.inputs.camera.files
  cameraOverlay,  \* dom.cameraOverlay: open class and aria-hidden
  mediaStream,    \* let mediaStream
  cachedHistory,  \* let cachedHistory
  hasUserMedia,   \* whether navigator.mediaDevices.getUserMedia exists
  tracks,         \* every stream getUserMedia returned: are its tracks live
  gumCalls,       \* getUserMedia promises of openCamera not yet settled
  blobCalls,      \* toBlob callbacks of captureFrame not yet called
  posts,          \* the POST /analyze requests of runAnalysis under way
  gets,           \* the GET /history requests of fetchHistory under way
  serverHistory,  \* the server's history list, most recent first
  loaded,         \* whether the window's load event has fired
  uncaught,       \* the handlers that an exception has escaped from
  nAnalyses,      \* runAnalysis calls started so far
  nOpens,         \* getUserMedia calls started so far
  lastOk,         \* id of the entry of the last analysis that completed
  getFailed       \* whether some GET /history has failed so far

dom == <<screens, status, buttons, summary, indicatorList, jsonView,
         historyList, galleryFiles, cameraFiles, cameraOverlay>>
camera == <<mediaStream, hasUserMedia, tracks, gumCalls, blobCalls, nOpens>>
network == <<posts, gets, serverHistory, nAnalyses, lastOk, getFailed>>
vars == <<dom, camera, network, cachedHistory, loaded, uncaught>>

\* a file the user picked, and the file captureFrame builds from a blob
PickedFile == [name |-> "site.jpg"]
CapturedFile == [name |-> "camera-now.jpg"]

NoPayload == [json |-> Undefined]

\* the page as the script finds it, and the script's top-level statements
Init ==
  /\ screens = [upload |-> [active |-> TRUE, ariaHidden |-> "false"],
                results |-> [active |-> FALSE, ariaHidden |-> "true"]]
  /\ status = [textContent |-> "", className |-> "status"]
  /\ buttons = [analyzeDisabled |-> FALSE, cameraDisabled |-> FALSE,
                analyzeText |-> "Analyze photo"]
  /\ summary = [label |-> <<>>, risk |-> "", explanation |-> "",
                confidence |-> "", confidenceClassName |-> "chip muted",
                dotClassName |-> "status-dot neutral",
                dotTitle |-> [label |-> <<>>, suffix |-> ""]]
  /\ indicatorList = <<>>
  /\ jsonView = NoPayload
  /\ historyList = NoHistoryNote
  /\ galleryFiles = <<>>
  /\ cameraFiles = <<>>
  /\ cameraOverlay = [open |-> FALSE, ariaHidden |-> "true"]
  /\ mediaStream = Undefined
  /\ cachedHistory = Array(<<>>)
  /\ hasUserMedia \in BOOLEAN
  /\ tracks = <<>>
  /\ gumCalls = 0
  /\ blobCalls = 0
  /\ posts = <<>>
  /\ gets = <<>>
  /\ serverHistory = <<>>
  /\ loaded = FALSE
  /\ uncaught = {}
  /\ nAnalyses = 0
  /\ nOpens = 0
  /\ lastOk = ""
  /\ getFailed = FALSE

(***************************************************************************)
(* The small DOM writers.                                                  *)
(***************************************************************************)
\* one screen's active class and aria-hidden, as setScreen sets them
ScreenState(active) ==
  [active |-> active, ariaHidden |-> IF active THEN "false" ELSE "true"]

\* a setScreen that adds the active class and removes none
setScreen_AddOnly(name) ==
  [upload |-> ScreenState(screens.upload.active \/ "upload" = name),
   results |-> ScreenState(screens.results.active \/ "results" = name)]

\* setScreen(name): the new value of dom.screens
setScreen(name) ==
  [upload |-> ScreenState("upload" = name),
   results |-> ScreenState("results" = name)]

\* setStatus(message, type = ''): the new value of dom.status
setStatus(message, type) ==
  [textContent |-> message,
   className |-> IF type = "" THEN "status" ELSE "status " \o type]

\* a toggleLoading that disables the buttons whatever it is given
toggleLoading_NeverClears(isLoading) ==
  [analyzeDisabled |-> TRUE, cameraDisabled |-> TRUE,
   analyzeText |-> "Analyzing..."]

\* toggleLoading(isLoading): the new value of dom.buttons
toggleLoading(isLoading) ==
  [analyzeDisabled |-> isLoading, cameraDisabled |-> isLoading,
   analyzeText |-> IF isLoading THEN "Analyzing..." ELSE "Analyze photo"]

\* a sequence without its i-th element
RemoveAt(seq, i) == SubSeq(seq, 1, i - 1) \o SubSeq(seq, i + 1, Len(seq))

(***************************************************************************)
(* The server and the network, as the client sees them.                    *)
(***************************************************************************)
Chars(word) ==
  CASE word = "red" -> <<"r", "e", "d">>
    [] word = "yellow" -> <<"y", "e", "l", "l", "o", "w">>
    [] word = "green" -> <<"g", "r", "e", "e", "n">>
    [] word = "uncertain" -> <<"u", "n", "c", "e", "r", "t", "a", "i", "n">>

Number(m) == [t |-> "number", n |-> Num(m)]

\* a response whose raw document carries features the classification does not
DocDiffer ==
  [classification |->
     [label |-> Chars("green"), risk_score |-> 1,
      explanation |-> "No concerning findings", overall_confidence |-> Number(800),
      features |-> EmptyObject],
   gemini |-> [features |-> [bruising |-> [yes |-> TRUE],
                             pus |-> [present |-> TRUE]]]]

\* a response whose raw document has features: null
DocNullFeatures ==
  [classification |->
     [label |-> Chars("uncertain"), risk_score |-> 0,
      explanation |-> "", overall_confidence |-> Number(0),
      features |-> EmptyObject],
   gemini |-> [features |-> Null]]

ServerDocs == {DocDiffer, DocNullFeatures}

\* the history entry the server stores for a document, which is also the
\* body of the 200 response of POST /analyze
NewEntry(doc) ==
  LET n == ToString(Len(serverHistory) + 1) IN
  [id |-> "e" \o n, timestamp |-> "2026-01-0" \o n,
   image_url |-> "/uploads/e" \o n \o ".jpg",
   classification |-> doc.classification, gemini |-> doc.gemini]

\* a response body res.json() rejects
Unparsable == [unparsable |-> TRUE]

\* POST /analyze is served: the entry is appended, its 200 response is on
\* its way
ServerAnalyze(i, doc) ==
  /\ i \in DOMAIN posts
  /\ posts[i].state = "sent"
  /\ LET entry == NewEntry(doc) IN
       /\ serverHistory' = <<entry>> \o serverHistory
       /\ posts' = [posts EXCEPT ![i] = [state |-> "responded", entry |-> entry]]
  /\ UNCHANGED <<dom, camera, gets, nAnalyses, lastOk, getFailed,
                 cachedHistory, loaded, uncaught>>

\* what fetch('/analyze') may settle with: the 200 response of a request
\* the server has served; for one it has not, a network failure, a 4xx or
\* 5xx with an error string, with none or with a body that is no JSON, or a
\* 200 whose body is no JSON
AnalyzeResponses(post) ==
  IF post.state = "responded"
  THEN { [kind |-> "http", ok |-> TRUE, body |-> post.entry] }
  ELSE { [kind |-> "network"],
         [kind |-> "http", ok |-> FALSE, body |-> [error |-> "Storage unavailable"]],
         [kind |-> "http", ok |-> FALSE, body |-> EmptyObject],
         [kind |-> "http", ok |-> FALSE, body |-> Unparsable],
         [kind |-> "http", ok |-> TRUE, body |-> Unparsable] }

\* GET /history is served: the list as it is now is on its way
ServerHistory(j) ==
  /\ j \in DOMAIN gets
  /\ gets[j].state = "sent"
  /\ gets' = [gets EXCEPT ![j] = [state |-> "responded", list |-> serverHistory]]
  /\ UNCHANGED <<dom, camera, posts, serverHistory, nAnalyses, lastOk,
                 getFailed, cachedHistory, loaded, uncaught>>

\* what fetch('/history') may settle with: the list of a request the server
\* has served, as it is or with a null element; for one it has not, a
\* network failure, a 5xx, a body that is no JSON, or the body null
HistoryResponses(get) ==
  IF get.state = "responded"
  THEN { [kind |-> "http", ok |-> TRUE, body |-> Array(get.list)],
         [kind |-> "http", ok |-> TRUE, body |-> Array(get.list \o <<Null>>)] }
  ELSE { [kind |-> "network"],
         [kind |-> "http", ok |-> FALSE, body |-> [error |-> "Storage unavailable"]],
         [kind |-> "http", ok |-> TRUE, body |-> Unparsable],
         [kind |-> "http", ok |-> TRUE, body |-> Null] }

(***************************************************************************)
(* runAnalysis.                                                            *)
(***************************************************************************)
\* room for one more runAnalysis call in this behaviour
Budget == nAnalyses + blobCalls < MaxAnalyses

\* runAnalysis(file) up to its await of fetch('/analyze')
StartAnalysis(file) ==
  /\ status' = setStatus("Analyzing image...", "loading")
  /\ buttons' = toggleLoading(TRUE)
  /\ posts' = Append(posts, [state |-> "sent", file |-> file])
  /\ nAnalyses' = nAnalyses + 1

\* fetch rejected: no response at all
FetchRejected(res) == res.kind = "network"

\* res.ok
ResponseOk(res) == res.ok

\* the message of a non-OK response with its error string left unread
ErrorPayloadMessage_Unread(res) == "Unexpected server error"

\* (payload.error || 'Unexpected server error') of a non-OK response; when
\* res.json() rejects, res.text() of the consumed body rejects in its turn
ErrorPayloadMessage(res) ==
  IF res.body = Unparsable THEN "body stream already read"
  ELSE IF "error" \in DOMAIN res.body /\ res.body.error # ""
  THEN res.body.error
  ELSE "Unexpected server error"

\* whether the try block throws before it renders anything
ThrowsBeforeRender(res) ==
  \/ FetchRejected(res)
  \/ ~ResponseOk(res)
  \/ res.body = Unparsable
  \/ Nullish(Prop(res.body, "classification"))

\* error.message of what the try block throws before it renders
ThrownMessage(res) ==
  IF FetchRejected(res) THEN "Failed to fetch"
  ELSE IF ~ResponseOk(res) THEN ErrorPayloadMessage(res)
  ELSE IF res.body = Unparsable THEN "Unexpected token in JSON"
  ELSE "Cannot read properties of undefined"

\* the catch block: setStatus(error.message || 'Failed to analyze image', 'error')
ErrorStatus(message) ==
  setStatus(IF message = "" THEN "Failed to analyze image" ELSE message, "error")

\* data.gemini?.features, the argument runAnalysis and displayHistoryEntry
\* give renderIndicators
IndicatorSource(data) == OptProp(Prop(data, "gemini"), "features")

\* the continuation of runAnalysis once fetch('/analyze') has settled with
\* res
ReceiveAnalyze(i, res) ==
  /\ i \in DOMAIN posts
  /\ res \in AnalyzeResponses(posts[i])
  /\ posts' = RemoveAt(posts, i)
  /\ buttons' = toggleLoading(FALSE)
  /\ IF ThrowsBeforeRender(res) THEN
       /\ status' = ErrorStatus(ThrownMessage(res))
       /\ UNCHANGED <<screens, summary, indicatorList, jsonView, gets, lastOk>>
     ELSE IF renderIndicatorsThrows(IndicatorSource(res.body)) THEN
       /\ summary' = renderSummary(res.body.classification)
       /\ status' = ErrorStatus("Cannot read properties of null")
       /\ UNCHANGED <<screens, indicatorList, jsonView, gets, lastOk>>
     ELSE
       /\ summary' = renderSummary(res.body.classification)
       /\ indicatorList' = renderIndicators(IndicatorSource(res.body))
       /\ jsonView' = renderDocument(res.body)
       /\ screens' = setScreen("results")
       /\ status' = setStatus("Analysis complete", "success")
       /\ gets' = Append(gets, [state |-> "sent"])
       /\ lastOk' = res.body.id
  /\ UNCHANGED <<historyList, galleryFiles, cameraFiles, cameraOverlay, camera,
                 serverHistory, nAnalyses, getFailed, cachedHistory, loaded,
                 uncaught>>

\* the click handler of the analyze button
AnalyzeClick ==
  /\ ~buttons.analyzeDisabled
  /\ IF galleryFiles = <<>> THEN
       /\ status' = setStatus("Please choose an image first", "error")
       /\ UNCHANGED <<buttons, posts, nAnalyses>>
     ELSE
       /\ Budget
       /\ StartAnalysis(galleryFiles[1])
  /\ UNCHANGED <<screens, summary, indicatorList, jsonView, historyList,
                 galleryFiles, cameraFiles, cameraOverlay, camera, gets,
                 serverHistory, lastOk, getFailed, cachedHistory, loaded,
                 uncaught>>

\* the change handler of the camera input
CameraChange(files) ==
  /\ cameraFiles' = files
  /\ IF files = <<>> THEN UNCHANGED <<status, buttons, posts, nAnalyses>>
     ELSE /\ Budget
          /\ StartAnalysis(files[1])
  /\ UNCHANGED <<screens, summary, indicatorList, jsonView, historyList,
                 galleryFiles, cameraOverlay, camera, gets, serverHistory,
                 lastOk, getFailed, cachedHistory, loaded, uncaught>>

\* the user picks a file in the gallery input
SelectGallery ==
  /\ galleryFiles = <<>>
  /\ galleryFiles' = <<PickedFile>>
  /\ UNCHANGED <<screens, status, buttons, summary, indicatorList, jsonView,
                 historyList, cameraFiles, cameraOverlay, camera, network,
                 cachedHistory, loaded, uncaught>>

\* the click handler of the new-scan button
NewScanClick ==
  /\ galleryFiles' = <<>>
  /\ cameraFiles' = <<>>
  /\ screens' = setScreen("upload")
  /\ status' = setStatus("Ready for another capture", "")
  /\ UNCHANGED <<buttons, summary, indicatorList, jsonView, historyList,
                 cameraOverlay, camera, network, cachedHistory, loaded,
                 uncaught>>

(***************************************************************************)
(* fetchHistory, renderHistory, displayHistoryEntry.                       *)
(***************************************************************************)
\* the load handler of the window: fetchHistory() up to its await of fetch
WindowLoad ==
  /\ ~loaded
  /\ loaded' = TRUE
  /\ gets' = Append(gets, [state |-> "sent"])
  /\ UNCHANGED <<dom, camera, posts, serverHistory, nAnalyses, lastOk,
                 getFailed, cachedHistory, uncaught>>

\* whether fetchHistory throws before it calls renderHistory: fetch rejected,
\* a non-OK status, or a body res.json() rejects
HistoryFetchFails(res) ==
  \/ res.kind = "network"
  \/ ~res.ok
  \/ res.body = Unparsable

\* whether renderHistory(entries) throws after it has assigned cachedHistory:
\* null has no length, and a null entry has no classification
renderHistoryThrows(entries) ==
  \/ entries = Null
  \/ \E i \in DOMAIN Items(entries) : Items(entries)[i] = Null

\* what renderHistory(entries) leaves in cachedHistory
renderHistoryCache(entries) == entries

\* the continuation of fetchHistory once fetch('/history') has settled with
\* res
ReceiveHistory(j, res) ==
  /\ j \in DOMAIN gets
  /\ res \in HistoryResponses(gets[j])
  /\ gets' = RemoveAt(gets, j)
  /\ IF HistoryFetchFails(res) THEN
       /\ getFailed' = TRUE
       /\ UNCHANGED <<cachedHistory, historyList>>
     ELSE IF renderHistoryThrows(res.body) THEN
       /\ getFailed' = TRUE
       /\ cachedHistory' = renderHistoryCache(res.body)
       /\ UNCHANGED historyList
     ELSE
       /\ cachedHistory' = renderHistoryCache(res.body)
       /\ historyList' = IF Len(Items(res.body)) = 0 THEN NoHistoryNote
                         ELSE HistoryItems(res.body)
       /\ UNCHANGED getFailed
  /\ UNCHANGED <<screens, status, buttons, summary, indicatorList, jsonView,
                 galleryFiles, cameraFiles, cameraOverlay, camera, posts,
                 serverHistory, nAnalyses, lastOk, loaded, uncaught>>

\* whether cachedHistory.find((item) => item.id === id) throws: cachedHistory
\* is null, or a null item is reached before an item with this id
FindThrows(id) ==
  \/ cachedHistory = Null
  \/ \E i \in DOMAIN Items(cachedHistory) :
       /\ Items(cachedHistory)[i] = Null
       /\ \A k \in 1..(i - 1) :
            /\ Items(cachedHistory)[k] # Null
            /\ Items(cachedHistory)[k].id # id

\* item.id === id for the i-th item of cachedHistory
IdMatches(i, id) ==
  Items(cachedHistory)[i] # Null /\ Items(cachedHistory)[i].id = id

\* whether find returns an entry
Found(id) == \E i \in DOMAIN Items(cachedHistory) : IdMatches(i, id)

\* the entry find returns: the first with this id
FoundEntry(id) ==
  Items(cachedHistory)[CHOOSE i \in DOMAIN Items(cachedHistory) :
      /\ IdMatches(i, id)
      /\ \A k \in 1..(i - 1) : ~IdMatches(k, id)]

\* displayHistoryEntry(id)
displayHistoryEntry(id) ==
  IF FindThrows(id) THEN
    /\ uncaught' = uncaught \cup {"displayHistoryEntry"}
    /\ UNCHANGED <<summary, indicatorList, jsonView, screens, status>>
  ELSE IF ~Found(id) THEN
    UNCHANGED <<summary, indicatorList, jsonView, screens, status, uncaught>>
  ELSE LET entry == FoundEntry(id) IN
    IF Nullish(Prop(entry, "classification")) THEN
      /\ uncaught' = uncaught \cup {"displayHistoryEntry"}
      /\ UNCHANGED <<summary, indicatorList, jsonView, screens, status>>
    ELSE IF renderIndicatorsThrows(IndicatorSource(entry)) THEN
      /\ summary' = renderSummary(entry.classification)
      /\ uncaught' = uncaught \cup {"displayHistoryEntry"}
      /\ UNCHANGED <<indicatorList, jsonView, screens, status>>
    ELSE
      /\ summary' = renderSummary(entry.classification)
      /\ indicatorList' = renderIndicators(IndicatorSource(entry))
      /\ jsonView' = renderDocument(entry)
      /\ screens' = setScreen("results")
      /\ status' = setStatus("Displaying saved assessment", "success")
      /\ UNCHANGED uncaught

\* the click handler of the history list, for a click on the k-th View button
HistoryClick(k) ==
  /\ k \in DOMAIN historyList
  /\ displayHistoryEntry(historyList[k].id)
  /\ UNCHANGED <<buttons, historyList, galleryFiles, cameraFiles,
                 cameraOverlay, camera, network, cachedHistory, loaded>>

(***************************************************************************)
(* The camera.                                                             *)
(***************************************************************************)
\* a closeCamera that stops the tracks and closes the overlay but keeps
\* mediaStream
closeCamera_KeepStream ==
  /\ IF Nullish(mediaStream) THEN UNCHANGED <<mediaStream, tracks>>
     ELSE /\ tracks' = [tracks EXCEPT ![mediaStream.stream] = FALSE]
          /\ UNCHANGED mediaStream
  /\ cameraOverlay' = [open |-> FALSE, ariaHidden |-> "true"]

\* closeCamera(): the new mediaStream, tracks and overlay
closeCamera ==
  /\ IF Nullish(mediaStream) THEN UNCHANGED <<mediaStream, tracks>>
     ELSE /\ tracks' = [tracks EXCEPT ![mediaStream.stream] = FALSE]
          /\ mediaStream' = Null
  /\ cameraOverlay' = [open |-> FALSE, ariaHidden |-> "true"]

\* the close button of the overlay, and the Escape key
CloseCamera ==
  /\ closeCamera
  /\ UNCHANGED <<screens, status, buttons, summary, indicatorList, jsonView,
                 historyList, galleryFiles, cameraFiles, hasUserMedia,
                 gumCalls, blobCalls, nOpens, network, cachedHistory, loaded,
                 uncaught>>

\* the click handler of the camera button: openCamera() up to its await, or
\* the file picker of the camera input where getUserMedia is missing
OpenCameraClick ==
  /\ ~buttons.cameraDisabled
  /\ IF hasUserMedia THEN
       /\ nOpens < MaxCameraOpens
       /\ gumCalls' = gumCalls + 1
       /\ nOpens' = nOpens + 1
     ELSE UNCHANGED <<gumCalls, nOpens>>
  /\ UNCHANGED <<dom, mediaStream, hasUserMedia, tracks, blobCalls, network,
                 cachedHistory, loaded, uncaught>>

\* getUserMedia resolves with a new stream: the rest of openCamera's try
GumResolve ==
  /\ gumCalls > 0
  /\ gumCalls' = gumCalls - 1
  /\ tracks' = Append(tracks, TRUE)
  /\ mediaStream' = [stream |-> Len(tracks) + 1]
  /\ cameraOverlay' = [open |-> TRUE, ariaHidden |-> "false"]
  /\ UNCHANGED <<screens, status, buttons, summary, indicatorList, jsonView,
                 historyList, galleryFiles, cameraFiles, hasUserMedia,
                 blobCalls, nOpens, network, cachedHistory, loaded, uncaught>>

\* getUserMedia rejects: openCamera's catch
GumReject ==
  /\ gumCalls > 0
  /\ gumCalls' = gumCalls - 1
  /\ status' = setStatus(
       "Camera access blocked. Please allow camera or upload from gallery.",
       "error")
  /\ UNCHANGED <<screens, buttons, summary, indicatorList, jsonView,
                 historyList, galleryFiles, cameraFiles, cameraOverlay,
                 mediaStream, hasUserMedia, tracks, blobCalls, nOpens, network,
                 cachedHistory, loaded, uncaught>>

\* the widths video.videoWidth may have when the capture button is clicked
VideoWidths == {0, 640}

\* captureFrame(), for the video width it reads
CaptureClick(videoWidth) ==
  /\ IF Nullish(mediaStream) \/ videoWidth = 0 THEN
       /\ status' = setStatus("Unable to access camera stream", "error")
       /\ UNCHANGED blobCalls
     ELSE
       /\ Budget
       /\ blobCalls' = blobCalls + 1
       /\ UNCHANGED status
  /\ UNCHANGED <<screens, buttons, summary, indicatorList, jsonView,
                 historyList, galleryFiles, cameraFiles, cameraOverlay,
                 mediaStream, hasUserMedia, tracks, gumCalls, nOpens, network,
                 cachedHistory, loaded, uncaught>>

\* a callback that takes whatever it is given for a blob
BlobMissing_Never(hasBlob) == FALSE

\* !blob
BlobMissing(hasBlob) == ~hasBlob

\* the callback of canvas.toBlob, called with a blob or with null
BlobCallback(hasBlob) ==
  /\ blobCalls > 0
  /\ blobCalls' = blobCalls - 1
  /\ IF BlobMissing(hasBlob) THEN
       /\ status' = setStatus("Capture failed. Try again.", "error")
       /\ UNCHANGED <<buttons, posts, nAnalyses, mediaStream, tracks,
                      cameraOverlay>>
     ELSE
       /\ closeCamera
       /\ StartAnalysis(CapturedFile)
  /\ UNCHANGED <<screens, summary, indicatorList, jsonView, historyList,
                 galleryFiles, cameraFiles, hasUserMedia, gumCalls, nOpens,
                 gets, serverHistory, lastOk, getFailed, cachedHistory, loaded,
                 uncaught>>

(***************************************************************************)
(* The program: every handler and continuation, in any order.              *)
(***************************************************************************)
Next ==
  \/ WindowLoad
  \/ SelectGallery
  \/ AnalyzeClick
  \/ \E files \in {<<>>, <<PickedFile>>} : CameraChange(files)
  \/ NewScanClick
  \/ \E i \in DOMAIN posts : \E res \in AnalyzeResponses(posts[i]) :
       ReceiveAnalyze(i, res)
  \/ \E j \in DOMAIN gets : \E res \in HistoryResponses(gets[j]) :
       ReceiveHistory(j, res)
  \/ \E k \in DOMAIN historyList : HistoryClick(k)
  \/ OpenCameraClick
  \/ GumResolve
  \/ GumReject
  \/ CloseCamera
  \/ \E w \in VideoWidths : CaptureClick(w)
  \/ \E b \in BOOLEAN : BlobCallback(b)
  \/ \E i \in DOMAIN posts, doc \in ServerDocs : ServerAnalyze(i, doc)
  \/ \E j \in DOMAIN gets : ServerHistory(j)

Spec == Init /\ [][Next]_vars

(***************************************************************************)
(* The rendering functions on drawn inputs: one analysis is under way and  *)
(* its 200 response, drawn from RenderInputs, is on its way; the only step *)
(* is the continuation of runAnalysis that renders it.                     *)
(***************************************************************************)
\* every spelling of a word in upper and lower case letters
CaseVariants(word) ==
  { [i \in 1..Len(word) |-> IF mask[i] THEN UpperChar(word[i]) ELSE word[i]] :
      mask \in [1..Len(word) -> BOOLEAN] }

LabelInputs ==
  UNION { CaseVariants(StatusDotColors[i]) : i \in DOMAIN StatusDotColors }
    \cup { <<>>, <<"b", "l", "u", "e">>, <<"r", "e", "d", "d">>, <<"R", "E">> }

ConfidenceInputs ==
  { Number(m) : m \in {0, 4, 300, 440, 450, 740, 750, 1000, 1400} }
    \cup { Null,
           [t |-> "string", s |-> "0.9"], [t |-> "string", s |-> ""],
           [t |-> "string", s |-> "high"],
           [t |-> "boolean", b |-> TRUE], [t |-> "boolean", b |-> FALSE] }

\* classification documents: the label and overall_confidence each drawn or
\* missing
ClassificationInputs ==
  LET base == [risk_score |-> 1, explanation |-> "drawn", features |-> EmptyObject]
      labels == {EmptyObject} \cup { [label |-> l] : l \in LabelInputs }
      confidences == {EmptyObject}
                       \cup { [overall_confidence |-> c] : c \in ConfidenceInputs }
  IN { (l @@ c) @@ base : l \in labels, c \in confidences }

\* feature values: null, or an object with present (missing, true or false)
\* and either yes (missing, true or false) or detail properties
FeatureValueInputs ==
  LET flags(key) == { EmptyObject, [x \in {key} |-> TRUE], [x \in {key} |-> FALSE] }
      details == { [extent_percent |-> 0], [extent_percent |-> 40],
                   [type |-> "purulent"], [amount |-> "moderate"],
                   [type |-> "purulent", amount |-> "moderate"] }
  IN {Null} \cup { p @@ y : p \in flags("present"), y \in flags("yes") }
            \cup { p @@ d : p \in flags("present"), d \in details }

\* the keys a drawn features mapping may have: the vocabulary and one key
\* outside it
FeatureKeyInputs == { featureLabels[i][1] : i \in DOMAIN featureLabels } \cup {"pus"}

\* features mappings with at most MaxKeys keys
FeatureMappingInputs ==
  UNION { [keys -> FeatureValueInputs] :
            keys \in { K \in SUBSET FeatureKeyInputs : Cardinality(K) <= MaxKeys } }

\* raw documents: null, one without features, one with features: null, and
\* one for each drawn mapping
RawInputs ==
  { Null, [model |-> "gemini"], [features |-> Null] }
    \cup { [features |-> f] : f \in FeatureMappingInputs }

RenderInputs ==
  LET entry(c, g) == [id |-> "e1", timestamp |-> "2026-01-01",
                      image_url |-> "/uploads/e1.jpg",
                      classification |-> c, gemini |-> g]
  IN { entry(c, [features |-> EmptyObject]) : c \in ClassificationInputs }
       \cup { entry(DocDiffer.classification, g) : g \in RawInputs }

InitRender ==
  /\ screens = [upload |-> [active |-> TRUE, ariaHidden |-> "false"],
                results |-> [active |-> FALSE, ariaHidden |-> "true"]]
  /\ status = setStatus("Analyzing image...", "loading")
  /\ buttons = toggleLoading(TRUE)
  /\ summary = [label |-> <<>>, risk |-> "", explanation |-> "",
                confidence |-> "", confidenceClassName |-> "chip muted",
                dotClassName |-> "status-dot neutral",
                dotTitle |-> [label |-> <<>>, suffix |-> ""]]
  /\ indicatorList = <<>>
  /\ jsonView = NoPayload
  /\ historyList = NoHistoryNote
  /\ galleryFiles = <<PickedFile>>
  /\ cameraFiles = <<>>
  /\ cameraOverlay = [open |-> FALSE, ariaHidden |-> "true"]
  /\ mediaStream = Undefined
  /\ cachedHistory = Array(<<>>)
  /\ hasUserMedia = TRUE
  /\ tracks = <<>>
  /\ gumCalls = 0
  /\ blobCalls = 0
  /\ \E data \in RenderInputs :
       /\ posts = <<[state |-> "responded", entry |-> data]>>
       /\ serverHistory = <<data>>
  /\ gets = <<>>
  /\ loaded = FALSE
  /\ uncaught = {}
  /\ nAnalyses = 1
  /\ nOpens = 0
  /\ lastOk = ""
  /\ getFailed = FALSE

NextRender ==
  \E i \in DOMAIN posts : \E res \in AnalyzeResponses(posts[i]) :
    ReceiveAnalyze(i, res)

SpecRender == InitRender /\ [][NextRender]_vars

(***************************************************************************)
(* The claims.                                                             *)
(***************************************************************************)
\* the fixed vocabulary of feature names, in its order, and the label each
\* is shown with
Vocabulary ==
  <<"redness", "swelling", "dressing_lift", "discharge", "exposed_catheter",
    "open_wound", "bruising", "crusting", "erythema_border_sharp", "fluctuance">>
VocabularyLabels ==
  <<"Redness", "Swelling", "Dressing lift", "Discharge", "Exposed catheter",
    "Open wound", "Bruising", "Crusting", "Sharp erythema border", "Fluctuance">>

\* the document the results screen shows, and its two parts
Shown == jsonView # NoPayload
ShownClassification == jsonView.json.classification
ShownRaw == jsonView.json.gemini

\* the raw document gives no value, or null, for a feature name: it is null
\* itself, has no features mapping, or its mapping (an object) has no value
\* or null for the name
RawValueMissing(name) ==
  \/ ShownRaw = Null
  \/ "features" \notin DOMAIN ShownRaw
  \/ /\ ShownRaw.features # Null
     /\ \/ name \notin DOMAIN ShownRaw.features
        \/ ShownRaw.features[name] = Null

\* C1: a feature whose value is absent or null (also when the whole features
\* mapping is absent or the raw document is null) is rendered as not
\* detected, with no alert: description 'Not detected', class 'indicator
\* neutral' and the check mark.
C1_MissingValueNotDetected ==
  Shown =>
    \A i \in DOMAIN Vocabulary :
      RawValueMissing(Vocabulary[i]) =>
        /\ i \in DOMAIN indicatorList
        /\ indicatorList[i].description = "Not detected"
        /\ indicatorList[i].className = "indicator neutral"
        /\ indicatorList[i].mark = "check"

\* a document with erythema_border_sharp: null has been rendered
C1_Witness ==
  /\ Shown
  /\ ShownRaw # Null
  /\ "features" \in DOMAIN ShownRaw
  /\ "erythema_border_sharp" \in DOMAIN ShownRaw.features
  /\ ShownRaw.features["erythema_border_sharp"] = Null
  /\ indicatorList[9].description = "Not detected"

\* two labels are equal but for the case of their letters
SameButCase(a, b) ==
  /\ Len(a) = Len(b)
  /\ \A k \in 1..Len(a) : LowerChar(a[k]) = LowerChar(b[k])

LabelWords == <<Chars("red"), Chars("yellow"), Chars("green"), Chars("uncertain")>>
DotClasses ==
  <<"status-dot red", "status-dot yellow", "status-dot green", "status-dot uncertain">>

\* C8: a label that is red, yellow, green or uncertain in any letter case is
\* shown exactly as received and gives the status dot the colour of the
\* lowercased label; a label that is none of the four gives none of the four
\* colours.
C8_LabelCase ==
  (Shown /\ "label" \in DOMAIN ShownClassification) =>
    LET label == ShownClassification.label IN
    /\ summary.label = label
    /\ \A w \in DOMAIN LabelWords :
         SameButCase(label, LabelWords[w]) => summary.dotClassName = DotClasses[w]
    /\ (\A w \in DOMAIN LabelWords : ~SameButCase(label, LabelWords[w])) =>
         \A w \in DOMAIN DotClasses : summary.dotClassName # DotClasses[w]

\* the label YeLlOw has been rendered, as received, with the yellow dot
C8_Witness ==
  /\ Shown
  /\ "label" \in DOMAIN ShownClassification
  /\ ShownClassification.label = <<"Y", "e", "L", "l", "O", "w">>
  /\ summary.label = <<"Y", "e", "L", "l", "O", "w">>
  /\ summary.dotClassName = "status-dot yellow"

\* overall_confidence is missing, or is no number
ConfidenceMissingOrNotNumeric ==
  \/ "overall_confidence" \notin DOMAIN ShownClassification
  \/ ShownClassification.overall_confidence = Null
  \/ /\ ShownClassification.overall_confidence # Null
     /\ ShownClassification.overall_confidence.t # "number"

\* the classification shown, with overall_confidence = 0
ShownWithZeroConfidence == [overall_confidence |-> Number(0)] @@ ShownClassification

\* C9: a classification whose overall_confidence is absent or not numeric is
\* rendered with the confidence text and the chip class that the same
\* classification has with overall_confidence = 0.
C9_ConfidenceDefaultsToZero ==
  (Shown /\ ConfidenceMissingOrNotNumeric) =>
    /\ summary.confidence = renderSummary(ShownWithZeroConfidence).confidence
    /\ summary.confidenceClassName =
         renderSummary(ShownWithZeroConfidence).confidenceClassName

\* C10: whatever the features mapping holds (nothing, some of the vocabulary,
\* keys outside it), the indicator list has exactly one indicator for each of
\* the ten vocabulary features, in the vocabulary's order, and none for any
\* other key.
C10_FixedVocabulary ==
  Shown =>
    /\ Len(indicatorList) = Len(VocabularyLabels)
    /\ \A i \in DOMAIN VocabularyLabels :
         indicatorList[i].strong = VocabularyLabels[i]

\* a mapping whose only key is outside the vocabulary has been rendered
C10_Witness ==
  /\ Shown
  /\ ShownRaw # Null
  /\ "features" \in DOMAIN ShownRaw
  /\ DOMAIN ShownRaw.features = {"pus"}
  /\ Len(indicatorList) = 10

\* C2: the indicators shown with a document are those of its classification:
\* after a successful runAnalysis and after displayHistoryEntry of a cached
\* entry, the indicator list is the rendering of classification.features of
\* the document shown, also when the raw document's features differ.
C2_IndicatorsOfClassification ==
  Shown => indicatorList = renderIndicators(Prop(ShownClassification, "features"))

\* POST /analyze ended with a non-OK status, or the request itself failed
AnalyzeFailed(res) == res.kind = "network" \/ ~res.ok

\* the response gives an error string
GivesErrorString(res) ==
  /\ res.kind = "http"
  /\ res.body # Unparsable
  /\ "error" \in DOMAIN res.body

\* C3: when POST /analyze ends with a non-OK status or the request fails,
\* runAnalysis sets the status line to an error (the response's error string
\* when it gives one), leaves the active screen, the summary, the indicators,
\* the raw JSON view and cachedHistory as they are, and issues no GET
\* /history.
C3_FailureIsNoResult ==
  [][\A i \in DOMAIN posts : \A res \in AnalyzeResponses(posts[i]) :
       (AnalyzeFailed(res) /\ ReceiveAnalyze(i, res)) =>
         /\ status'.className = "status error"
         /\ GivesErrorString(res) => status'.textContent = res.body.error
         /\ UNCHANGED <<screens, summary, indicatorList, jsonView,
                        cachedHistory, gets>>]_vars

\* a 5xx with an error string has been handled: the status line shows it as
\* an error, nothing is rendered and no GET /history is under way
C3_Witness ==
  /\ status = [textContent |-> "Storage unavailable", className |-> "status error"]
  /\ ~Shown
  /\ screens.upload.active
  /\ gets = <<>>

\* C4: once an analysis has succeeded and the server has appended its entry,
\* and every GET /history has completed successfully, cachedHistory and the
\* history panel have the new entry as their first element, in whatever
\* order the responses arrived.
C4_HistoryShowsNewEntry ==
  ( /\ lastOk # ""
    /\ posts = <<>>
    /\ gets = <<>>
    /\ ~getFailed
    /\ serverHistory[1].id = lastOk ) =>
      /\ Len(Items(cachedHistory)) > 0
      /\ Items(cachedHistory)[1].id = lastOk
      /\ Len(historyList) > 0
      /\ historyList[1].id = lastOk

\* C5: invalid input is stopped before any request: the analyze button
\* clicked with no file chosen sets the status to the error 'Please choose an
\* image first', issues no POST /analyze and does not enter the loading
\* state; a change of the camera input with no file issues no request;
\* captureFrame with no media stream or no video width, and a toBlob callback
\* given null, issue none either.
C5_InvalidInputStopsEarly ==
  [][/\ (AnalyzeClick /\ galleryFiles = <<>>) =>
          /\ status' = [textContent |-> "Please choose an image first",
                        className |-> "status error"]
          /\ posts' = posts
          /\ ~buttons'.analyzeDisabled /\ ~buttons'.cameraDisabled
     /\ CameraChange(<<>>) => posts' = posts
     /\ \A w \in VideoWidths :
          (CaptureClick(w) /\ (Nullish(mediaStream) \/ w = 0)) =>
            posts' = posts /\ blobCalls' = blobCalls
     /\ BlobCallback(FALSE) => posts' = posts]_vars

\* the analyze button has been clicked with no file chosen: the error is
\* shown and no analysis was ever started
C5_Witness ==
  /\ status = [textContent |-> "Please choose an image first",
               className |-> "status error"]
  /\ galleryFiles = <<>>
  /\ posts = <<>>
  /\ nAnalyses = 0

\* an id matches no entry of cachedHistory
MatchesNoEntry(id) ==
  \/ cachedHistory = Null
  \/ \A i \in DOMAIN Items(cachedHistory) : ~IdMatches(i, id)

\* C6: displayHistoryEntry(id) with an id that matches no entry of
\* cachedHistory returns without raising and leaves the active screen, the
\* status line, the summary, the indicators and the raw JSON view as they
\* are; with an id that matches an entry it shows that entry's
\* classification and switches to the results screen with the status
\* 'Displaying saved assessment'.
C6_UnknownIdIsNormal ==
  [][\A k \in DOMAIN historyList :
       HistoryClick(k) =>
         LET id == historyList[k].id IN
         IF MatchesNoEntry(id) THEN
           /\ uncaught' = uncaught
           /\ UNCHANGED <<screens, status, summary, indicatorList, jsonView>>
         ELSE
           /\ uncaught' = uncaught
           /\ summary' = renderSummary(FoundEntry(id).classification)
           /\ jsonView' = renderDocument(FoundEntry(id))
           /\ screens'.results.active /\ ~screens'.upload.active
           /\ status' = [textContent |-> "Displaying saved assessment",
                         className |-> "status success"]]_vars

\* GET /history failed: a network error, a non-OK status, or a body that
\* cannot be parsed or rendered
HistoryReadFailed(res) ==
  \/ res.kind = "network"
  \/ ~res.ok
  \/ res.body = Unparsable
  \/ res.body = Null
  \/ \E i \in DOMAIN Items(res.body) : Items(res.body)[i] = Null

\* C7: when GET /history fails, fetchHistory raises nothing and leaves
\* cachedHistory, the history panel, the active screen and the status line
\* as they are, so that every later click on a View button of the panel is
\* handled without raising.
C7_HistoryFailureTolerated ==
  [][/\ \A j \in DOMAIN gets : \A res \in HistoryResponses(gets[j]) :
          (HistoryReadFailed(res) /\ ReceiveHistory(j, res)) =>
            /\ uncaught' = uncaught
            /\ UNCHANGED <<cachedHistory, historyList, screens, status>>
     /\ \A k \in DOMAIN historyList :
          (HistoryClick(k) /\ getFailed) => uncaught' = uncaught]_vars

\* the panel is the rendering of cachedHistory: the note for an empty list,
\* else one item for each entry, in the list's order
PanelRendersCache ==
  /\ cachedHistory # Null
  /\ \A i \in DOMAIN Items(cachedHistory) : Items(cachedHistory)[i] # Null
  /\ historyList = IF Len(Items(cachedHistory)) = 0 THEN NoHistoryNote
                   ELSE HistoryItems(cachedHistory)

\* cachedHistory is the server's list as it was at some time: the list grows
\* at its front only, so an earlier list is what follows some position of it
CacheInServerOrder ==
  \E n \in 1..(Len(serverHistory) + 1) :
    Items(cachedHistory) = SubSeq(serverHistory, n, Len(serverHistory))

\* C11: in every state the history panel shows exactly the entries of
\* cachedHistory, in the same order, none dropped, reordered or duplicated;
\* that order is the most-recent-first order of the server's list; and every
\* View button of the panel has an id that displayHistoryEntry finds in
\* cachedHistory.
C11_PanelIsCache ==
  /\ PanelRendersCache
  /\ CacheInServerOrder
  /\ \A k \in DOMAIN historyList :
       ~FindThrows(historyList[k].id) /\ Found(historyList[k].id)

\* C12: for every value of erythema_border_sharp that is not null, the
\* indicator is in the alert state (class 'indicator alert', warning mark,
\* description 'Defined border') exactly when value.yes is true, whatever
\* value.present is; otherwise it is neutral, with the check mark and the
\* description 'Diffuse border'.
C12_BorderDrivenByYes ==
  ( /\ Shown
    /\ ShownRaw # Null
    /\ "features" \in DOMAIN ShownRaw
    /\ ShownRaw.features # Null
    /\ "erythema_border_sharp" \in DOMAIN ShownRaw.features
    /\ ShownRaw.features["erythema_border_sharp"] # Null ) =>
      LET value == ShownRaw.features["erythema_border_sharp"] IN
      IF Flag(value, "yes") THEN
        indicatorList[9] = [className |-> "indicator alert",
                            strong |-> "Sharp erythema border",
                            description |-> "Defined border", mark |-> "warning"]
      ELSE
        indicatorList[9] = [className |-> "indicator neutral",
                            strong |-> "Sharp erythema border",
                            description |-> "Diffuse border", mark |-> "check"]

\* C13: whenever a POST /analyze is under way the analyze and camera buttons
\* are disabled, and no more than one POST /analyze is under way at a time,
\* in whatever order the user's events and the pending getUserMedia, toBlob
\* and fetch callbacks come.
C13_OneAnalysisAtATime ==
  /\ posts # <<>> => (buttons.analyzeDisabled /\ buttons.cameraDisabled)
  /\ Len(posts) <= 1

(***************************************************************************)
(* Runs in which every POST /analyze settles: fetch resolves or rejects,   *)
(* and the continuation of runAnalysis runs.                               *)
(***************************************************************************)
\* some request under way settles
Settle ==
  \E i \in DOMAIN posts : \E res \in AnalyzeResponses(posts[i]) :
    ReceiveAnalyze(i, res)

\* the handlers and continuations that start an analysis, settle one, or
\* lead to one through the camera; the others (the history, the new-scan
\* button) neither read nor write the buttons and the requests
NextAnalysis ==
  \/ SelectGallery
  \/ AnalyzeClick
  \/ \E files \in {<<>>, <<PickedFile>>} : CameraChange(files)
  \/ Settle
  \/ OpenCameraClick
  \/ GumResolve
  \/ GumReject
  \/ CloseCamera
  \/ \E w \in VideoWidths : CaptureClick(w)
  \/ \E b \in BOOLEAN : BlobCallback(b)
  \/ \E i \in DOMAIN posts, doc \in ServerDocs : ServerAnalyze(i, doc)

SpecSettling == Init /\ [][NextAnalysis]_vars /\ WF_vars(Settle)

\* the loading state toggleLoading(true) sets, and the one
\* toggleLoading(false) sets
Loading ==
  /\ buttons.analyzeDisabled
  /\ buttons.cameraDisabled
  /\ buttons.analyzeText = "Analyzing..."
NotLoading ==
  /\ ~buttons.analyzeDisabled
  /\ ~buttons.cameraDisabled
  /\ buttons.analyzeText = "Analyze photo"

\* C14: the loading state always ends: once runAnalysis has set it, and
\* given that the POST /analyze settles, it is cleared in time, whether the
\* response is OK, non-OK, a network failure, a body that is no JSON, or one
\* whose rendering raises.
C14_LoadingEnds == Loading ~> NotLoading

\* an analysis whose rendering raised has ended: the status line has the
\* exception's message and the loading state is cleared
C14_Witness ==
  /\ NotLoading
  /\ nAnalyses > 0
  /\ posts = <<>>
  /\ status = [textContent |-> "Cannot read properties of null",
               className |-> "status error"]

\* C15: no camera stream is leaked: in every state where the overlay is
\* closed and no getUserMedia call is pending, every stream getUserMedia has
\* returned has had its tracks stopped, also when the camera button is
\* clicked again before an earlier call has resolved and when closeCamera
\* runs while a call is pending.
C15_NoStreamLeaked ==
  (~cameraOverlay.open /\ gumCalls = 0) =>
    \A t \in DOMAIN tracks : ~tracks[t]

\* the overlay is open exactly when mediaStream holds a stream
OverlayIffStream == cameraOverlay.open <=> ~Nullish(mediaStream)

\* C16: between handlers and callbacks the camera overlay is open exactly
\* when mediaStream is not null; a rejected getUserMedia leaves the overlay
\* and mediaStream as they are; and a capture that succeeds closes the
\* overlay and clears mediaStream before it issues its POST /analyze.
C16_OverlayAndStream ==
  /\ []OverlayIffStream
  /\ [][/\ GumReject => UNCHANGED <<cameraOverlay, mediaStream>>
        /\ BlobCallback(TRUE) =>
             /\ ~cameraOverlay'.open
             /\ Nullish(mediaStream')
             /\ posts' = Append(posts, [state |-> "sent", file |-> CapturedFile])]_vars

\* a capture has succeeded: its POST is under way, the overlay is closed,
\* mediaStream is null and the stream's tracks are stopped
C16_Witness ==
  /\ posts = <<[state |-> "sent", file |-> CapturedFile]>>
  /\ ~cameraOverlay.open
  /\ mediaStream = Null
  /\ tracks = <<FALSE>>

\* the descriptions that do not say a finding was detected
NoFindingTexts == {"Not detected", "Diffuse border"}

\* C17: the three parts of an indicator agree: for every vocabulary feature
\* and value, the class is not neutral ('indicator alert' or 'indicator
\* danger') exactly when the warning mark is shown, exactly when the
\* description says a finding was detected (it is neither 'Not detected' nor
\* 'Diffuse border').
C17_IndicatorPartsAgree ==
  Shown =>
    \A i \in DOMAIN indicatorList :
      /\ indicatorList[i].className \in {"indicator alert", "indicator danger"}
           <=> indicatorList[i].mark = "warning"
      /\ indicatorList[i].mark = "warning"
           <=> indicatorList[i].description \notin NoFindingTexts

\* exactly one screen is active, and each screen's aria-hidden is the
\* negation of its active class
ScreensConsistent ==
  /\ screens.upload.active # screens.results.active
  /\ \A name \in {"upload", "results"} :
       screens[name].ariaHidden = IF screens[name].active THEN "false" ELSE "true"

\* this step is a runAnalysis that rendered its result
AnalysisSucceeds ==
  \E i \in DOMAIN posts : \E res \in AnalyzeResponses(posts[i]) :
    /\ ReceiveAnalyze(i, res)
    /\ res.kind = "http" /\ res.ok
    /\ status' = [textContent |-> "Analysis complete", className |-> "status success"]

\* this step is a displayHistoryEntry that found its entry
EntryDisplayed ==
  \E k \in DOMAIN historyList :
    /\ HistoryClick(k)
    /\ ~FindThrows(historyList[k].id)
    /\ Found(historyList[k].id)

\* C18: exactly one of the two screens is active and each screen's
\* aria-hidden is the negation of its active flag; the results screen
\* becomes active only through a runAnalysis that succeeded or a
\* displayHistoryEntry that found its entry; the upload screen becomes
\* active again only through the new-scan button, which also clears both
\* file inputs.
C18_OneScreen ==
  /\ []ScreensConsistent
  /\ [][/\ (~screens.results.active /\ screens'.results.active) =>
             (AnalysisSucceeds \/ EntryDisplayed)
        /\ (~screens.upload.active /\ screens'.upload.active) =>
             /\ NewScanClick
             /\ galleryFiles' = <<>>
             /\ cameraFiles' = <<>>]_vars

\* the new-scan button has brought the upload screen back after a result
\* was shown: the result is still rendered, both file inputs are empty
C18_Witness ==
  /\ Shown
  /\ screens = setScreen("upload")
  /\ status = [textContent |-> "Ready for another capture", className |-> "status"]
  /\ galleryFiles = <<>>
  /\ cameraFiles = <<>>
  /\ nAnalyses > 0

====
